---- MODULE Spec2Model ----
(***************************************************************************)
(* Prompt analyzer: the page component (Home) and the POST /api/analyze    *)
(* route handler, with the external model as a fallible black box.         *)
(*                                                                         *)
(* Text is a sequence of characters, each a one-character string.  A few   *)
(* long literals of the source (the messages, the property names, the      *)
(* system instruction) are carried as one opaque element each: they hold   *)
(* no quote, backslash, backtick, whitespace-only or control character, so *)
(* every text operation below treats them as one ordinary character.       *)
(***************************************************************************)
EXTENDS Integers, Sequences, FiniteSets, TLC

(***************************************************************************)
(* Characters                                                              *)
(***************************************************************************)
\* String.prototype.trim and the regular expression class \s, restricted to
\* the whitespace characters of the model's alphabet.
WhiteSpace == {" ", "\n", "\t", "\r"}

\* The whitespace JSON.parse skips between tokens.
JSONSpace == {" ", "\n", "\t", "\r"}

Digits == {"0", "1", "2", "3", "4", "5", "6", "7", "8", "9"}

DigitVal(c) ==
  CASE c = "0" -> 0 [] c = "1" -> 1 [] c = "2" -> 2 [] c = "3" -> 3
    [] c = "4" -> 4 [] c = "5" -> 5 [] c = "6" -> 6 [] c = "7" -> 7
    [] c = "8" -> 8 [] OTHER -> 9

DigitChar(d) ==
  CASE d = 0 -> "0" [] d = 1 -> "1" [] d = 2 -> "2" [] d = 3 -> "3"
    [] d = 4 -> "4" [] d = 5 -> "5" [] d = 6 -> "6" [] d = 7 -> "7"
    [] d = 8 -> "8" [] OTHER -> "9"

\* Case folding of the i flag, for the letters of "json".
Lower(c) ==
  CASE c = "J" -> "j" [] c = "S" -> "s" [] c = "O" -> "o" [] c = "N" -> "n"
    [] OTHER -> c

(***************************************************************************)
(* Text helpers                                                            *)
(***************************************************************************)
Drop(s, n) == SubSeq(s, n + 1, Len(s))

StartsWith(s, p) == Len(s) >= Len(p) /\ SubSeq(s, 1, Len(p)) = p

RECURSIVE TrimStart(_)
TrimStart(s) ==
  IF s # <<>> /\ Head(s) \in WhiteSpace THEN TrimStart(Tail(s)) ELSE s

RECURSIVE TrimEnd(_)
TrimEnd(s) ==
  IF s # <<>> /\ s[Len(s)] \in WhiteSpace
  THEN TrimEnd(SubSeq(s, 1, Len(s) - 1))
  ELSE s

\* String.prototype.trim
Trim(s) == TrimEnd(TrimStart(s))

\* !s.trim(): the text is empty or whitespace only.
Blank(s) == Trim(s) = <<>>

RECURSIVE Concat(_)
Concat(ss) == IF ss = <<>> THEN <<>> ELSE Head(ss) \o Concat(Tail(ss))

RECURSIVE Repeat(_, _)
Repeat(c, n) == IF n <= 0 THEN <<>> ELSE <<c>> \o Repeat(c, n - 1)

\* The backquote character (the module's string syntax has no literal for it).
BackTick == "BACKTICK"

\* The three backquotes of a fence marker.
Fence == <<BackTick, BackTick, BackTick>>

\* First replace of cleaned: a leading fence tagged json in any letter case,
\* with the whitespace after it, is removed.
StripFenceOpen(s) ==
  IF /\ Len(s) >= 7
     /\ SubSeq(s, 1, 3) = Fence
     /\ [i \in 1..4 |-> Lower(s[3 + i])] = <<"j", "s", "o", "n">>
  THEN TrimStart(Drop(s, 7))
  ELSE s

\* Second replace of cleaned: a fence ending the text is removed.
StripFenceClose(s) ==
  IF Len(s) >= 3 /\ SubSeq(s, Len(s) - 2, Len(s)) = Fence
  THEN SubSeq(s, 1, Len(s) - 3)
  ELSE s

\* cleaned: the reply trimmed, then the two replaces in that order.
Cleaned(text) == StripFenceClose(StripFenceOpen(Trim(text)))

(***************************************************************************)
(* JavaScript values, as far as JSON reaches                               *)
(*                                                                         *)
(* A number is its sign, its significant decimal digits d (no leading and  *)
(* no trailing zero) and the position n of the decimal point: the value is *)
(* 0.d1d2...dk * 10^n.  Zero has no digit; the sign of zero is dropped     *)
(* (JSON.stringify writes -0 as 0).  A literal beyond the double range is  *)
(* Infinity.  Literals of the model carry fewer than 17 significant        *)
(* digits, so no rounding of the mantissa arises.                          *)
(***************************************************************************)
JUndefined == [t |-> "undefined"]

JNull == [t |-> "null"]

JBool(b) == [t |-> "bool", b |-> b]

JStr(s) == [t |-> "str", s |-> s]

JNum(neg, d, n) == [t |-> "num", inf |-> FALSE, neg |-> neg, d |-> d, n |-> n]

JZero == JNum(FALSE, <<>>, 0)

JInfinity(neg) == [t |-> "num", inf |-> TRUE, neg |-> neg, d |-> <<>>, n |-> 0]

JArr(a) == [t |-> "arr", a |-> a]

\* An object: its own properties in property order, each [k |-> key, v |-> value].
JObj(m) == [t |-> "obj", m |-> m]

\* Number.MAX_VALUE is 1.7976931348623157e308: point position and digits.
MaxValuePoint == 309

MaxValueDigits == <<1, 7, 9, 7, 6, 9, 3, 1, 3, 4, 8, 6, 2, 3, 1, 5, 7>>

\* Number.MIN_VALUE is 5e-324: point position.
MinValuePoint == -323

\* Digit sequences compared as decimal fractions 0.a and 0.b.
RECURSIVE FracGreater(_, _)
FracGreater(a, b) ==
  IF a = <<>> THEN FALSE
  ELSE IF b = <<>> THEN TRUE
  ELSE IF Head(a) # Head(b) THEN Head(a) > Head(b)
  ELSE FracGreater(Tail(a), Tail(b))

RECURSIVE StripLeadingZeros(_)
StripLeadingZeros(d) ==
  IF d # <<>> /\ Head(d) = 0 THEN StripLeadingZeros(Tail(d)) ELSE d

RECURSIVE StripTrailingZeros(_)
StripTrailingZeros(d) ==
  IF d # <<>> /\ d[Len(d)] = 0
  THEN StripTrailingZeros(SubSeq(d, 1, Len(d) - 1))
  ELSE d

RECURSIVE NatOfDigits(_)
NatOfDigits(d) ==
  IF d = <<>> THEN 0 ELSE 10 * NatOfDigits(SubSeq(d, 1, Len(d) - 1)) + d[Len(d)]

RECURSIVE DigitsOfNat(_)
DigitsOfNat(k) ==
  IF k < 10 THEN <<k>> ELSE DigitsOfNat(k \div 10) \o <<k % 10>>

\* The Number with significant digits d and decimal point at n.
NumberAt(neg, d, n) ==
  IF d = <<>> \/ n < MinValuePoint THEN JZero
  ELSE IF n > MaxValuePoint \/ (n = MaxValuePoint /\ FracGreater(d, MaxValueDigits))
  THEN JInfinity(neg)
  ELSE JNum(neg, d, n)

\* The Number value of a JSON number literal: integer digits, fraction
\* digits, exponent.
NumberValue(neg, int, frac, exp) ==
  NumberAt(neg, StripTrailingZeros(StripLeadingZeros(int \o frac)),
           Len(StripLeadingZeros(int \o frac)) - Len(frac) + exp)

DigitChars(d) == [i \in 1..Len(d) |-> DigitChar(d[i])]

\* The exponent part of the scientific form: e, the sign, the digits.
ExponentText(e) ==
  IF e < 0 THEN <<"e", "-">> \o DigitChars(DigitsOfNat(-e))
  ELSE <<"e", "+">> \o DigitChars(DigitsOfNat(e))

\* Number::toString (radix 10) of the positive number with k digits ds and
\* decimal point at n.
DigitsToText(ds, k, n) ==
  IF k <= n /\ n <= 21 THEN ds \o Repeat("0", n - k)
  ELSE IF 0 < n /\ n <= 21 THEN SubSeq(ds, 1, n) \o <<".">> \o SubSeq(ds, n + 1, k)
  ELSE IF -6 < n /\ n <= 0 THEN <<"0", ".">> \o Repeat("0", -n) \o ds
  ELSE IF k = 1 THEN ds \o ExponentText(n - 1)
  ELSE <<ds[1], ".">> \o SubSeq(ds, 2, k) \o ExponentText(n - 1)

\* Number::toString of a finite number.
NumberToText(v) ==
  IF v.d = <<>> THEN <<"0">>
  ELSE (IF v.neg THEN <<"-">> ELSE <<>>) \o DigitsToText(DigitChars(v.d), Len(v.d), v.n)

(***************************************************************************)
(* Property order of an object JSON.parse builds: the array-index keys in  *)
(* ascending numeric order, then the other keys in order of creation; a    *)
(* repeated key keeps its place and takes the later value.                 *)
(***************************************************************************)
\* A canonical array index (keys of the model stay below 10 digits).
IsIndexKey(k) ==
  /\ k # <<>>
  /\ Len(k) < 10
  /\ \A i \in 1..Len(k) : k[i] \in Digits
  /\ (Len(k) > 1 => k[1] # "0")

IndexLess(a, b) ==
  \/ Len(a) < Len(b)
  \/ /\ Len(a) = Len(b)
     /\ FracGreater([i \in 1..Len(b) |-> DigitVal(b[i])],
                    [i \in 1..Len(a) |-> DigitVal(a[i])])

HasKey(m, k) == \E i \in 1..Len(m) : m[i].k = k

InsertAt(m, c, p) == SubSeq(m, 1, c) \o <<p>> \o SubSeq(m, c + 1, Len(m))

\* CreateDataProperty on the object under construction.
DefineProperty(m, k, v) ==
  IF HasKey(m, k)
  THEN [i \in 1..Len(m) |-> IF m[i].k = k THEN [k |-> k, v |-> v] ELSE m[i]]
  ELSE IF IsIndexKey(k)
  THEN InsertAt(m,
                Cardinality({i \in 1..Len(m) :
                               IsIndexKey(m[i].k) /\ IndexLess(m[i].k, k)}),
                [k |-> k, v |-> v])
  ELSE Append(m, [k |-> k, v |-> v])

\* obj[k], undefined when obj is no object or has no such property.
Get(obj, k) ==
  IF obj.t = "obj" /\ HasKey(obj.m, k)
  THEN obj.m[CHOOSE i \in 1..Len(obj.m) : obj.m[i].k = k].v
  ELSE JUndefined

(***************************************************************************)
(* JSON.parse: a recursive-descent reading of the JSON grammar.  Each      *)
(* parser takes the text and a position and returns [ok, v, pos]: whether  *)
(* a production starts there, its value, and the position after it.        *)
(***************************************************************************)
NoParse == [ok |-> FALSE, v |-> JUndefined, pos |-> 0]

Parsed(v, pos) == [ok |-> TRUE, v |-> v, pos |-> pos]

At(s, i) == IF i >= 1 /\ i <= Len(s) THEN s[i] ELSE "EOF"

RECURSIVE SkipSpace(_, _)
SkipSpace(s, i) == IF At(s, i) \in JSONSpace THEN SkipSpace(s, i + 1) ELSE i

RECURSIVE DigitsEnd(_, _)
DigitsEnd(s, i) == IF At(s, i) \in Digits THEN DigitsEnd(s, i + 1) ELSE i

DigitsAt(s, i, j) == [x \in 1..(j - i) |-> DigitVal(s[i + x - 1])]

\* The characters a string may not hold unescaped.
ControlChars == {"\n", "\t", "\r"}

\* The character a two-character escape stands for ("" when it is none).
Unescape(c) ==
  CASE c = "\"" -> "\"" [] c = "\\" -> "\\" [] c = "/" -> "/"
    [] c = "n" -> "\n" [] c = "t" -> "\t" [] c = "r" -> "\r"
    [] OTHER -> ""

RECURSIVE ParseChars(_, _, _)
ParseChars(s, i, acc) ==
  IF At(s, i) = "EOF" \/ At(s, i) \in ControlChars THEN NoParse
  ELSE IF At(s, i) = "\"" THEN Parsed(acc, i + 1)
  ELSE IF At(s, i) = "\\"
  THEN IF Unescape(At(s, i + 1)) = "" THEN NoParse
       ELSE ParseChars(s, i + 2, Append(acc, Unescape(At(s, i + 1))))
  ELSE ParseChars(s, i + 1, Append(acc, At(s, i)))

\* A string literal at i: the text it denotes.
ParseString(s, i) ==
  IF At(s, i) = "\"" THEN ParseChars(s, i + 1, <<>>) ELSE NoParse

\* A number literal at i, read part by part: sign, integer digits, fraction,
\* exponent.  Each part is handed on as a parameter.
NumberDone(neg, int, frac, exp, pos) ==
  Parsed(NumberValue(neg, int, frac, exp), pos)

NumberExpDigits(s, neg, int, frac, minus, e1, expEnd) ==
  IF expEnd = e1 THEN NoParse
  ELSE NumberDone(neg, int, frac,
                  IF minus THEN -NatOfDigits(DigitsAt(s, e1, expEnd))
                  ELSE NatOfDigits(DigitsAt(s, e1, expEnd)),
                  expEnd)

NumberExpSign(s, neg, int, frac, minus, e1) ==
  NumberExpDigits(s, neg, int, frac, minus, e1, DigitsEnd(s, e1))

NumberExp(s, neg, int, frac, fracEnd) ==
  IF At(s, fracEnd) \in {"e", "E"}
  THEN NumberExpSign(s, neg, int, frac, At(s, fracEnd + 1) = "-",
                     IF At(s, fracEnd + 1) \in {"+", "-"} THEN fracEnd + 2
                     ELSE fracEnd + 1)
  ELSE NumberDone(neg, int, frac, 0, fracEnd)

NumberFracDigits(s, neg, int, intEnd, fracEnd) ==
  IF fracEnd = intEnd + 1 THEN NoParse
  ELSE NumberExp(s, neg, int, DigitsAt(s, intEnd + 1, fracEnd), fracEnd)

NumberFrac(s, neg, int, intEnd) ==
  IF At(s, intEnd) = "."
  THEN NumberFracDigits(s, neg, int, intEnd, DigitsEnd(s, intEnd + 1))
  ELSE NumberExp(s, neg, int, <<>>, intEnd)

NumberInt(s, neg, i1, intEnd) ==
  IF intEnd = i1 THEN NoParse
  ELSE NumberFrac(s, neg, DigitsAt(s, i1, intEnd), intEnd)

NumberSign(s, neg, i1) ==
  NumberInt(s, neg, i1, IF At(s, i1) = "0" THEN i1 + 1 ELSE DigitsEnd(s, i1))

ParseNumber(s, i) ==
  NumberSign(s, At(s, i) = "-", IF At(s, i) = "-" THEN i + 1 ELSE i)

ParseLiteral(s, i, word, v) ==
  IF StartsWith(Drop(s, i - 1), word) THEN Parsed(v, i + Len(word)) ELSE NoParse

RECURSIVE ParseValue(_, _)
RECURSIVE ParseElements(_, _, _)
RECURSIVE ParseMembers(_, _, _)

\* After an element r of an array, at the next token j.
ElementNext(s, acc, r, j) ==
  IF At(s, j) = "," THEN ParseElements(s, j + 1, Append(acc, r.v))
  ELSE IF At(s, j) = "]" THEN Parsed(JArr(Append(acc, r.v)), j + 1)
  ELSE NoParse

ElementRead(s, acc, r) ==
  IF ~r.ok THEN NoParse ELSE ElementNext(s, acc, r, SkipSpace(s, r.pos))

\* The elements of an array after its "[" or after a ",": acc holds the
\* elements read so far.
ParseElements(s, i, acc) == ElementRead(s, acc, ParseValue(s, SkipSpace(s, i)))

\* After a member of an object, at the next token j: acc holds the
\* properties defined so far.
MemberNext(s, acc, j) ==
  IF At(s, j) = "," THEN ParseMembers(s, j + 1, acc)
  ELSE IF At(s, j) = "}" THEN Parsed(JObj(acc), j + 1)
  ELSE NoParse

MemberValue(s, acc, key, r) ==
  IF ~r.ok THEN NoParse
  ELSE MemberNext(s, DefineProperty(acc, key, r.v), SkipSpace(s, r.pos))

MemberColon(s, acc, key, c) ==
  IF At(s, c) # ":" THEN NoParse
  ELSE MemberValue(s, acc, key, ParseValue(s, SkipSpace(s, c + 1)))

MemberKey(s, acc, k) ==
  IF ~k.ok THEN NoParse ELSE MemberColon(s, acc, k.v, SkipSpace(s, k.pos))

\* The members of an object after its "{" or after a ",".
ParseMembers(s, i, acc) == MemberKey(s, acc, ParseString(s, SkipSpace(s, i)))

\* "{" or "[" at i, with the next token at j.
ObjectAt(s, j) ==
  IF At(s, j) = "}" THEN Parsed(JObj(<<>>), j + 1) ELSE ParseMembers(s, j, <<>>)

ArrayAt(s, j) ==
  IF At(s, j) = "]" THEN Parsed(JArr(<<>>), j + 1) ELSE ParseElements(s, j, <<>>)

StringAt(r) == IF r.ok THEN Parsed(JStr(r.v), r.pos) ELSE NoParse

\* A JSON value starting exactly at i.
ParseValue(s, i) ==
  CASE At(s, i) = "{" -> ObjectAt(s, SkipSpace(s, i + 1))
    [] At(s, i) = "[" -> ArrayAt(s, SkipSpace(s, i + 1))
    [] At(s, i) = "\"" -> StringAt(ParseString(s, i))
    [] At(s, i) = "-" \/ At(s, i) \in Digits -> ParseNumber(s, i)
    [] At(s, i) = "n" -> ParseLiteral(s, i, <<"n", "u", "l", "l">>, JNull)
    [] At(s, i) = "t" -> ParseLiteral(s, i, <<"t", "r", "u", "e">>, JBool(TRUE))
    [] At(s, i) = "f" ->
         ParseLiteral(s, i, <<"f", "a", "l", "s", "e">>, JBool(FALSE))
    [] OTHER -> NoParse

WholeText(s, r) ==
  IF r.ok /\ SkipSpace(s, r.pos) = Len(s) + 1
  THEN [ok |-> TRUE, v |-> r.v]
  ELSE [ok |-> FALSE, v |-> JUndefined]

\* JSON.parse(s): [ok |-> FALSE] stands for the SyntaxError it throws.
JSONParse(s) == WholeText(s, ParseValue(s, SkipSpace(s, 1)))

(***************************************************************************)
(* JSON.stringify (no indent, no replacer)                                 *)
(***************************************************************************)
\* QuoteJSONString: the escapes of the characters a string may not hold raw.
EscapeChar(c) ==
  CASE c = "\"" -> <<"\\", "\"">>
    [] c = "\\" -> <<"\\", "\\">>
    [] c = "\n" -> <<"\\", "n">>
    [] c = "\t" -> <<"\\", "t">>
    [] c = "\r" -> <<"\\", "r">>
    [] OTHER -> <<c>>

RECURSIVE EscapeChars(_)
EscapeChars(s) ==
  IF s = <<>> THEN <<>>
  ELSE EscapeChar(Head(s)) \o EscapeChars(Tail(s))

Quote(s) == <<"\"">> \o EscapeChars(s) \o <<"\"">>

RECURSIVE JSONStringify(_)
RECURSIVE StringifyElements(_)
RECURSIVE StringifyMembers(_)

StringifyElements(a) ==
  IF a = <<>> THEN <<>>
  ELSE JSONStringify(Head(a))
         \o (IF Len(a) > 1 THEN <<",">> ELSE <<>>) \o StringifyElements(Tail(a))

StringifyMembers(m) ==
  IF m = <<>> THEN <<>>
  ELSE Quote(Head(m).k) \o <<":">> \o JSONStringify(Head(m).v)
         \o (IF Len(m) > 1 THEN <<",">> ELSE <<>>) \o StringifyMembers(Tail(m))

\* JSON.stringify(v) of a value without undefined members.
JSONStringify(v) ==
  CASE v.t = "null" -> <<"n", "u", "l", "l">>
    [] v.t = "bool" -> IF v.b THEN <<"t", "r", "u", "e">>
                       ELSE <<"f", "a", "l", "s", "e">>
    [] v.t = "num" -> IF v.inf THEN <<"n", "u", "l", "l">> ELSE NumberToText(v)
    [] v.t = "str" -> Quote(v.s)
    [] v.t = "arr" -> <<"[">> \o StringifyElements(v.a) \o <<"]">>
    [] OTHER -> <<"{">> \o StringifyMembers(v.m) \o <<"}">>

(***************************************************************************)
(* JavaScript coercions the two components use                             *)
(***************************************************************************)
\* !v
Falsy(v) ==
  \/ v.t \in {"undefined", "null"}
  \/ (v.t = "bool" /\ ~v.b)
  \/ (v.t = "num" /\ ~v.inf /\ v.d = <<>>)
  \/ (v.t = "str" /\ v.s = <<>>)

\* v ?? w
Coalesce(v, w) == IF v.t \in {"undefined", "null"} THEN w ELSE v

RECURSIVE StringOf(_)
RECURSIVE JoinElements(_)

\* Array.prototype.join(","), by which an array converts to a string.
JoinElements(a) ==
  IF a = <<>> THEN <<>>
  ELSE (IF Head(a).t \in {"undefined", "null"} THEN <<>> ELSE StringOf(Head(a)))
         \o (IF Len(a) > 1 THEN <<",">> ELSE <<>>) \o JoinElements(Tail(a))

\* String(v), as new Error(v) converts its message.
StringOf(v) ==
  CASE v.t = "str" -> v.s
    [] v.t = "num" -> IF v.inf
                      THEN (IF v.neg THEN <<"-">> ELSE <<>>) \o <<"Infinity">>
                      ELSE NumberToText(v)
    [] v.t = "bool" -> IF v.b THEN <<"t", "r", "u", "e">>
                       ELSE <<"f", "a", "l", "s", "e">>
    [] v.t = "null" -> <<"n", "u", "l", "l">>
    [] v.t = "arr" -> JoinElements(v.a)
    [] v.t = "obj" -> <<"[object Object]">>
    [] OTHER -> <<"undefined">>

(***************************************************************************)
(* The route handler POST /api/analyze                                     *)
(***************************************************************************)
MissingKeyMessage ==
  <<"Missing GOOGLE_API_KEY. Set it in your server environment (e.g. .env.local).">>

InvalidBodyMessage == <<"Invalid JSON body.">>

PromptRequiredMessage == <<"Field 'prompt' (non-empty string) is required.">>

InvalidReplyMessage == <<"Gemini returned an invalid JSON response.">>

CallFailedMessage == <<"Error while calling Gemini API.">>

\* const systemInstruction, one opaque element.
systemInstruction == <<"You are an expert prompt-engineering coach. ...">>

\* new Response(JSON.stringify(value), {status})
Response(status, value) == [status |-> status, body |-> JSONStringify(value)]

ErrorBody(message) == JObj(<<[k |-> <<"error">>, v |-> JStr(message)]>>)

\* const { prompt } = (body || {})
PromptField(body) == Get(IF Falsy(body) THEN JObj(<<>>) ELSE body, <<"prompt">>)

\* !prompt || typeof prompt !== "string" || !prompt.trim()
PromptRejected(prompt) == Falsy(prompt) \/ prompt.t # "str" \/ Blank(prompt.s)

\* The text part of the single user turn given to generateContent.
Contents(prompt) ==
  systemInstruction \o <<"\n", "\n", "USER_PROMPT:", "\n">> \o prompt

Return(resp) == [invoke |-> FALSE, contents |-> <<>>, resp |-> resp]

Invoke(contents) ==
  [invoke |-> TRUE, contents |-> contents, resp |-> [status |-> 0, body |-> <<>>]]

\* The prompt check and what follows it.
CheckPrompt(prompt) ==
  IF PromptRejected(prompt)
  THEN Return(Response(400, ErrorBody(PromptRequiredMessage)))
  ELSE Invoke(Contents(prompt.s))

\* request.json() and what follows it: parsed is the body parsed.
CheckBody(parsed) ==
  IF ~parsed.ok
  THEN Return(Response(400, ErrorBody(InvalidBodyMessage)))
  ELSE CheckPrompt(PromptField(parsed.v))

\* The handler reading the body before it looks at the credential.
ValidateBodyFirst(key, body) ==
  IF ~JSONParse(body).ok
  THEN Return(Response(400, ErrorBody(InvalidBodyMessage)))
  ELSE IF ~key
  THEN Return(Response(500, ErrorBody(MissingKeyMessage)))
  ELSE CheckPrompt(PromptField(JSONParse(body).v))

\* The handler up to its call of generateContent: the response it returns
\* early, or the contents it invokes the model with.
Validate(key, body) ==
  IF ~key
  THEN Return(Response(500, ErrorBody(MissingKeyMessage)))
  ELSE CheckBody(JSONParse(body))

\* The 502 with the diagnostic text cut short.
InvalidReplyResponseCut(cleaned) ==
  Response(502, JObj(<<[k |-> <<"error">>, v |-> JStr(InvalidReplyMessage)],
                       [k |-> <<"raw">>,
                        v |-> JStr(SubSeq(cleaned, 1,
                                          IF Len(cleaned) < 5 THEN Len(cleaned)
                                                              ELSE 5))]>>))

\* The 502 of the inner catch.
InvalidReplyResponse(cleaned) ==
  Response(502, JObj(<<[k |-> <<"error">>, v |-> JStr(InvalidReplyMessage)],
                       [k |-> <<"raw">>, v |-> JStr(cleaned)]>>))

\* JSON.parse(cleaned) and what follows it: json is cleaned parsed.
Forward(cleaned, json) ==
  IF ~json.ok THEN InvalidReplyResponse(cleaned) ELSE Response(200, json.v)

ParseReply(cleaned) == Forward(cleaned, JSONParse(cleaned))

\* The handler from the return of generateContent on.  reply.threw: the
\* call (or result.response.text()) threw; reply.text: the model's text.
Conclude(reply) ==
  IF reply.threw
  THEN Response(500, ErrorBody(CallFailedMessage))
  ELSE ParseReply(Cleaned(reply.text))

(***************************************************************************)
(* The page component Home                                                 *)
(***************************************************************************)
\* The initial value of the prompt state, one opaque element.
DefaultPrompt == <<"You are an AI tutor. ...">>

WritePromptMessage == <<"Write a prompt first.">>

FailedToAnalyzeMessage == <<"Failed to analyze prompt.">>

UnknownErrorMessage == <<"Unknown error while analyzing.">>

\* The message of the TypeError a rejected fetch carries, and of the
\* SyntaxError response.json() throws: the runtime words them.
FetchFailedMessage == <<"Failed to fetch">>

BodySyntaxMessage == <<"Unexpected token in JSON">>

\* body: JSON.stringify({ prompt })
RequestBody(p) == JSONStringify(JObj(<<[k |-> <<"prompt">>, v |-> JStr(p)]>>))

\* response.ok
ResponseOk(status) == status >= 200 /\ status <= 299

\* What the awaited fetch yields: a response, or a rejection.
Responded(r) == [kind |-> "response", status |-> r.status, body |-> r.body]

Rejected == [kind |-> "rejected", status |-> 0, body |-> <<>>]

Throw(message) ==
  [threw |-> TRUE, isError |-> TRUE, message |-> message, data |-> JUndefined]

\* response.json() and what follows it: data is the body parsed.
ReadData(status, data) ==
  IF ~data.ok THEN Throw(BodySyntaxMessage)
  ELSE IF ~ResponseOk(status)
  THEN Throw(StringOf(Coalesce(Get(data.v, <<"error">>),
                               JStr(FailedToAnalyzeMessage))))
  ELSE [threw |-> FALSE, isError |-> FALSE, message |-> <<>>, data |-> data.v]

\* The try block of handleAnalyze after the fetch: what it throws, or the
\* data it passes to setAnalysis.
Attempt(outcome) ==
  IF outcome.kind = "rejected"
  THEN Throw(FetchFailedMessage)
  ELSE ReadData(outcome.status, JSONParse(outcome.body))

\* The catch block: err instanceof Error ? err.message : "Unknown error ..."
CaughtMessage(a) == IF a.isError THEN a.message ELSE UnknownErrorMessage

\* analysis.improvedPrompt, usable when it is a string with a non-blank trim.
ImprovedPrompt(a) == Get(a, <<"improvedPrompt">>)

Usable(v) == v.t = "str" /\ ~Blank(v.s)

(***************************************************************************)
(* Bounds and inputs                                                       *)
(***************************************************************************)
\* Exchanges with the route that may be open at once.
MaxSlots == 2

\* Clipboard writes that may be pending at once.
MaxWrites == 1

\* Timers of the copied indicator that may be pending at once.
MaxTimers == 2

Slots == 1..MaxSlots

\* What the user types into the textarea.
PromptEdits == {<<>>, <<" ", "\n">>, DefaultPrompt}

ImprovedText == <<"y", "\n", "\"", "q", "\"">>

Member(k, v) == [k |-> <<k>>, v |-> v]

\* Analyses the model may return; the ones the page receives carry the
\* suggestions array its rendering reads.
AnalysisFull ==
  JObj(<<Member("overallScore", JNum(FALSE, <<4, 2>>, 2)),
         Member("suggestions", JArr(<<JStr(<<"Add context">>)>>)),
         Member("improvedPrompt", JStr(ImprovedText))>>)

AnalysisBlankImproved ==
  JObj(<<Member("suggestions", JArr(<<>>)),
         Member("improvedPrompt", JStr(<<" ", "\n">>))>>)

AnalysisNoImproved == JObj(<<Member("suggestions", JArr(<<>>))>>)

\* J wrapped in a fenced code block with the given language tag.
Fenced(tag, J) == Fence \o tag \o <<"\n">> \o J \o <<"\n">> \o Fence

\* The language tags of the fenced replies: none, json, Json.
FenceTags == {<<>>, <<"j", "s", "o", "n">>, <<"J", "s", "o", "n">>}

Said(text) == [threw |-> FALSE, text |-> text]

CallThrew == [threw |-> TRUE, text |-> <<>>]

NoReply == [threw |-> FALSE, text |-> <<>>]

NullText == <<"n", "u", "l", "l">>

NotJSONText == <<"S", "o", "r", "r", "y", ":", " ", "{">>

\* What the model answers to the requests of the page.
PageReplies ==
  { Said(JSONStringify(AnalysisFull)),
    Said(Fenced(<<"j", "s", "o", "n">>, JSONStringify(AnalysisBlankImproved))),
    Said(JSONStringify(AnalysisNoImproved)),
    Said(NullText),
    Said(NotJSONText),
    CallThrew }

\* Well-formed JSON texts the model may answer with.
OutOfRangeText ==
  <<"{", "\"", "overallScore", "\"", ":", "1", "5", "0", ",", " ",
    "\"", "criteria", "\"", ":", "[", "]", "}">>

HugeScoreText ==
  <<"{", "\"", "overallScore", "\"", ":", "1", "e", "9", "9", "9", "}">>

SpacedArrayText == <<" ", "[", "1", ",", " ", "\"", "a", "\"", "]", "\n">>

EmptyObjectText == <<"{", "}">>

\* The JSON texts that also arrive fenced.
FencedJSONTexts == {JSONStringify(AnalysisFull), EmptyObjectText}

JSONTexts ==
  FencedJSONTexts \cup {OutOfRangeText, HugeScoreText, SpacedArrayText, NullText}

\* What the model answers to the requests of other callers.
RouteReplies ==
  {Said(J) : J \in JSONTexts}
    \cup {Said(Fenced(tag, J)) : tag \in FenceTags, J \in FencedJSONTexts}
    \cup { Said(NotJSONText), Said(<<>>),
           Said(Fence \o <<"j", "s", "o", "n", "\n">> \o EmptyObjectText),
           CallThrew }

\* Request bodies of callers other than the page.
MalformedBody == <<"{", "\"", "prompt", "\"", ":">>

EmptyPromptBody == RequestBody(<<>>)

SpacePromptBody == RequestBody(<<" ", "\n">>)

NumberPromptBody == <<"{", "\"", "prompt", "\"", ":", "5", "}">>

CallerBodies ==
  { RequestBody(<<" ", "x", "\"", " ">>),
    EmptyPromptBody, SpacePromptBody, NumberPromptBody,
    EmptyObjectText, NullText, MalformedBody, <<>> }

BlankPromptBodies == {EmptyPromptBody, SpacePromptBody}

\* Responses that reach the page from something between it and the route.
GatewayResponses ==
  { [status |-> 504, body |-> <<"<", "h", "t", "m", "l", ">">>],
    [status |-> 503, body |-> EmptyObjectText],
    [status |-> 200, body |-> <<>>] }

(***************************************************************************)
(* State                                                                   *)
(***************************************************************************)
VARIABLES
  prompt,       \* useState prompt: the textarea's text
  analysis,     \* useState analysis: the last analysis, JNull before any
  isAnalyzing,  \* useState isAnalyzing
  error,        \* useState error: JNull or a string
  copied,       \* useState copied
  clipboard,    \* clipboard writes of handleCopyImproved still pending
  timers,       \* pending setTimeout callbacks of handleCopyImproved
  apiKey,       \* whether process.env.GOOGLE_API_KEY was set at module load
  reqs,         \* the exchanges with the route, one per slot
  lastOk        \* history: the data of the last 2xx response the page read

page == <<prompt, analysis, isAnalyzing, error, copied, clipboard, timers>>

vars == <<prompt, analysis, isAnalyzing, error, copied, clipboard, timers,
          apiKey, reqs, lastOk>>

NoResponse == [status |-> 0, body |-> <<>>]

FreeSlot ==
  [st |-> "free", src |-> "none", body |-> <<>>, contents |-> <<>>,
   calls |-> 0, reply |-> NoReply, resp |-> NoResponse]

\* A request on its way to the route.
NewRequest(src, body) == [FreeSlot EXCEPT !.st = "sent", !.src = src, !.body = body]

IsFree(i) == reqs[i].st = "free"

\* The slot a new exchange takes: the lowest free one.
NextSlot == CHOOSE i \in Slots : IsFree(i) /\ \A j \in Slots : IsFree(j) => i <= j

Init ==
  /\ prompt = DefaultPrompt
  /\ analysis = JNull
  /\ isAnalyzing = FALSE
  /\ error = JNull
  /\ copied = FALSE
  /\ clipboard = 0
  /\ timers = 0
  /\ apiKey \in BOOLEAN
  /\ reqs = [i \in Slots |-> FreeSlot]
  /\ lastOk = JNull

(***************************************************************************)
(* The route: one exchange per slot                                        *)
(***************************************************************************)
\* A caller other than the page sends a request.
CallerSend(bodies) ==
  /\ \E i \in Slots : IsFree(i)
  /\ \E body \in bodies :
       reqs' = [reqs EXCEPT ![NextSlot] = NewRequest("caller", body)]
  /\ UNCHANGED <<page, apiKey, lastOk>>

\* The exchange after the first part of POST: awaiting the model it has
\* invoked, or done with the response returned.
Proceed(req, r) ==
  IF r.invoke
  THEN [req EXCEPT !.st = "awaiting", !.contents = r.contents, !.calls = @ + 1]
  ELSE [req EXCEPT !.st = "done", !.resp = r.resp]

\* POST, from its entry to the awaited generateContent call or to the
\* response it returns before it.
POST_Begin(i) ==
  /\ reqs[i].st = "sent"
  /\ reqs' = [reqs EXCEPT ![i] = Proceed(@, Validate(apiKey, @.body))]
  /\ UNCHANGED <<page, apiKey, lastOk>>

\* POST invoking the model once more when its call has thrown.
POST_EndRetry(i, replies) ==
  /\ reqs[i].st = "awaiting"
  /\ \E reply \in replies :
       reqs' = [reqs EXCEPT ![i] =
                  IF reply.threw /\ @.calls < 2
                  THEN [@ EXCEPT !.calls = @ + 1]
                  ELSE [@ EXCEPT !.st = "done", !.reply = reply,
                                 !.resp = Conclude(reply)]]
  /\ UNCHANGED <<page, apiKey, lastOk>>

\* POST answering from a response kept at module level: the last 200 of any
\* request still at hand is returned in place of the request's own.
POST_EndCached(i, replies) ==
  /\ reqs[i].st = "awaiting"
  /\ \E reply \in replies :
       reqs' = [reqs EXCEPT ![i] =
                  [@ EXCEPT !.st = "done", !.reply = reply,
                            !.resp =
                              IF \E j \in Slots : reqs[j].resp.status = 200
                              THEN reqs[CHOOSE j \in Slots :
                                          reqs[j].resp.status = 200].resp
                              ELSE Conclude(reply)]]
  /\ UNCHANGED <<page, apiKey, lastOk>>

\* POST, resumed when generateContent settles, to the response it returns.
POST_End(i, replies) ==
  /\ reqs[i].st = "awaiting"
  /\ \E reply \in replies :
       reqs' = [reqs EXCEPT ![i] =
                  [@ EXCEPT !.st = "done", !.reply = reply,
                            !.resp = Conclude(reply)]]
  /\ UNCHANGED <<page, apiKey, lastOk>>

\* The response reaches the caller: the exchange ends.
CallerReceive(i) ==
  /\ reqs[i].st = "done"
  /\ reqs[i].src = "caller"
  /\ reqs' = [reqs EXCEPT ![i] = FreeSlot]
  /\ UNCHANGED <<page, apiKey, lastOk>>

(***************************************************************************)
(* The page's handlers                                                     *)
(***************************************************************************)
\* onChange of the textarea: setPrompt(e.target.value)
EditPrompt ==
  /\ \E p \in PromptEdits : p # prompt /\ prompt' = p
  /\ UNCHANGED <<analysis, isAnalyzing, error, copied, clipboard, timers,
                 apiKey, reqs, lastOk>>

\* handleAnalyze with the return of its first branch left out.
handleAnalyzeNoReturn ==
  /\ \E i \in Slots : IsFree(i)
  /\ isAnalyzing' = TRUE
  /\ error' = JNull
  /\ reqs' = [reqs EXCEPT ![NextSlot] = NewRequest("page", RequestBody(prompt))]
  /\ UNCHANGED <<prompt, analysis, copied, clipboard, timers, apiKey, lastOk>>

\* handleAnalyze without its setError(null).
handleAnalyzeKeepError ==
  IF Blank(prompt)
  THEN /\ error' = JStr(WritePromptMessage)
       /\ UNCHANGED <<prompt, analysis, isAnalyzing, copied, clipboard, timers,
                      apiKey, reqs, lastOk>>
  ELSE /\ \E i \in Slots : IsFree(i)
       /\ isAnalyzing' = TRUE
       /\ reqs' = [reqs EXCEPT ![NextSlot] = NewRequest("page", RequestBody(prompt))]
       /\ UNCHANGED <<prompt, analysis, error, copied, clipboard, timers,
                      apiKey, lastOk>>

\* handleAnalyze, from its entry to the awaited fetch or to its early return.
handleAnalyze ==
  IF Blank(prompt)
  THEN /\ error' = JStr(WritePromptMessage)
       /\ UNCHANGED <<prompt, analysis, isAnalyzing, copied, clipboard, timers,
                      apiKey, reqs, lastOk>>
  ELSE /\ \E i \in Slots : IsFree(i)
       /\ isAnalyzing' = TRUE
       /\ error' = JNull
       /\ reqs' = [reqs EXCEPT ![NextSlot] = NewRequest("page", RequestBody(prompt))]
       /\ UNCHANGED <<prompt, analysis, copied, clipboard, timers, apiKey, lastOk>>

\* The data of the last 2xx response read, after this outcome.
LastOkAfter(outcome, data) ==
  IF outcome.kind = "response" /\ ResponseOk(outcome.status) /\ data.ok
  THEN data.v
  ELSE lastOk

\* The catch resetting the analysis as well.
FinishClearing(a) ==
  /\ IF a.threw
     THEN /\ error' = JStr(CaughtMessage(a))
          /\ analysis' = JNull
          /\ UNCHANGED copied
     ELSE /\ analysis' = a.data
          /\ copied' = FALSE
          /\ UNCHANGED error
  /\ isAnalyzing' = FALSE

\* setIsAnalyzing(false) at the end of the try block, not in a finally.
FinishInTry(a) ==
  IF a.threw
  THEN /\ error' = JStr(CaughtMessage(a))
       /\ UNCHANGED <<analysis, copied, isAnalyzing>>
  ELSE /\ analysis' = a.data
       /\ copied' = FALSE
       /\ isAnalyzing' = FALSE
       /\ UNCHANGED error

\* The rest of handleAnalyze once the try block has run as a: the state
\* updates of the try block or of the catch, then the finally.
Finish(a) ==
  /\ IF a.threw
     THEN /\ error' = JStr(CaughtMessage(a))
          /\ UNCHANGED <<analysis, copied>>
     ELSE /\ analysis' = a.data
          /\ copied' = FALSE
          /\ UNCHANGED error
  /\ isAnalyzing' = FALSE

\* handleAnalyze, resumed with what the fetch of slot i yielded; the
\* exchange is over for the page (what the route still does with a request
\* whose fetch has settled is seen by nobody).
Settle(i, outcome) ==
  /\ reqs' = [reqs EXCEPT ![i] = FreeSlot]
  /\ Finish(Attempt(outcome))
  /\ lastOk' = LastOkAfter(outcome, JSONParse(outcome.body))
  /\ UNCHANGED <<prompt, clipboard, timers, apiKey>>

\* The fetch resolves with the route's response.
FetchResolved(i) ==
  /\ reqs[i].src = "page"
  /\ reqs[i].st = "done"
  /\ Settle(i, Responded(reqs[i].resp))

\* The fetch rejects: the network failed.
FetchRejected(i) ==
  /\ reqs[i].src = "page"
  /\ Settle(i, Rejected)

\* The fetch resolves with a response the route did not write.
FetchIntercepted(i) ==
  /\ reqs[i].src = "page"
  /\ \E r \in GatewayResponses : Settle(i, Responded(r))

\* handleUseImproved without the trim of its second test.
handleUseImprovedNoTrim ==
  /\ prompt' = IF ~Falsy(analysis) /\ ~Falsy(ImprovedPrompt(analysis))
               THEN ImprovedPrompt(analysis).s
               ELSE prompt
  /\ UNCHANGED <<analysis, isAnalyzing, error, copied, clipboard, timers,
                 apiKey, reqs, lastOk>>

\* handleUseImproved
handleUseImproved ==
  /\ prompt' = IF ~Falsy(analysis) /\ Usable(ImprovedPrompt(analysis))
               THEN ImprovedPrompt(analysis).s
               ELSE prompt
  /\ UNCHANGED <<analysis, isAnalyzing, error, copied, clipboard, timers,
                 apiKey, reqs, lastOk>>

\* handleCopyImproved, from its entry to the awaited clipboard write or to
\* its early return.
handleCopyImproved ==
  IF Falsy(analysis) \/ ~Usable(ImprovedPrompt(analysis))
  THEN UNCHANGED vars
  ELSE /\ clipboard < MaxWrites
       /\ clipboard' = clipboard + 1
       /\ UNCHANGED <<prompt, analysis, isAnalyzing, error, copied, timers,
                      apiKey, reqs, lastOk>>

\* handleCopyImproved, resumed when the clipboard write has succeeded.
WriteResolved ==
  /\ clipboard > 0
  /\ timers < MaxTimers
  /\ clipboard' = clipboard - 1
  /\ copied' = TRUE
  /\ timers' = timers + 1
  /\ UNCHANGED <<prompt, analysis, isAnalyzing, error, apiKey, reqs, lastOk>>

\* handleCopyImproved, resumed in its catch when the clipboard write failed.
WriteRejected ==
  /\ clipboard > 0
  /\ clipboard' = clipboard - 1
  /\ copied' = FALSE
  /\ UNCHANGED <<prompt, analysis, isAnalyzing, error, timers, apiKey, reqs,
                 lastOk>>

\* A callback of setTimeout(() => setCopied(false), 1500) runs.
TimerFired ==
  /\ timers > 0
  /\ timers' = timers - 1
  /\ copied' = FALSE
  /\ UNCHANGED <<prompt, analysis, isAnalyzing, error, clipboard, apiKey, reqs,
                 lastOk>>

(***************************************************************************)
(* The rendered buttons: a disabled button takes no click.                 *)
(***************************************************************************)
\* The Analyze button disabled on a blank prompt only.
AnalyzeDisabledBlankOnly == Blank(prompt)

\* disabled={isAnalyzing || !prompt.trim()}
AnalyzeDisabled == isAnalyzing \/ Blank(prompt)

\* disabled={!analysis}
UseImprovedDisabled == Falsy(analysis)

\* disabled={!analysis || !analysis.improvedPrompt?.trim()}
CopyDisabled == Falsy(analysis) \/ ~Usable(ImprovedPrompt(analysis))

ClickAnalyze == ~AnalyzeDisabled /\ handleAnalyze

ClickUseImproved == ~UseImprovedDisabled /\ handleUseImproved

ClickCopy == ~CopyDisabled /\ handleCopyImproved

(***************************************************************************)
(* Specifications                                                          *)
(***************************************************************************)
\* The page as the user drives it, and the route serving it.
Next ==
  \/ EditPrompt
  \/ ClickAnalyze
  \/ ClickUseImproved
  \/ ClickCopy
  \/ WriteResolved
  \/ WriteRejected
  \/ TimerFired
  \/ \E i \in Slots : FetchResolved(i)
  \/ \E i \in Slots : FetchRejected(i)
  \/ \E i \in Slots : FetchIntercepted(i)
  \/ \E i \in Slots : POST_Begin(i)
  \/ \E i \in Slots : POST_End(i, PageReplies)

Spec == Init /\ [][Next]_vars

\* The handlers' own guards exercised as well, as if the buttons did not
\* repeat them: handleAnalyze called on the idle page whatever the prompt
\* is, handleUseImproved and handleCopyImproved called whatever the analysis
\* is; and another caller sending blank prompts to the route.
NextHandlers ==
  \/ Next
  \/ (~isAnalyzing /\ handleAnalyze)
  \/ handleUseImproved
  \/ handleCopyImproved
  \/ ((\A i \in Slots : reqs[i].src # "caller") /\ CallerSend(BlankPromptBodies))
  \/ \E i \in Slots : CallerReceive(i)

SpecHandlers == Init /\ [][NextHandlers]_vars

\* The fetch of slot i settles and handleAnalyze resumes.
FetchSettled(i) == FetchRejected(i) \/ FetchIntercepted(i) \/ FetchResolved(i)

\* The page and the route where every request resolves: no fetch stays
\* pending for ever.
LiveSpec == Spec /\ \A i \in Slots : WF_vars(FetchSettled(i))

\* The route alone, serving concurrent callers.
NextRoute ==
  \/ CallerSend(CallerBodies)
  \/ \E i \in Slots : POST_Begin(i)
  \/ \E i \in Slots : POST_End(i, RouteReplies)
  \/ \E i \in Slots : CallerReceive(i)

SpecRoute == Init /\ [][NextRoute]_vars

(***************************************************************************)
(* Properties of the route                                                 *)
(***************************************************************************)
\* The exchange of slot i has its response.
Done(i) == reqs[i].st = "done"

\* The model was invoked for the exchange of slot i and answered with text.
Answered(i) == Done(i) /\ reqs[i].calls = 1 /\ ~reqs[i].reply.threw

\* The exchange of slot i ended with this error response, the model never
\* invoked for it.
RejectedEarly(i, status, message) ==
  /\ Done(i)
  /\ reqs[i].calls = 0
  /\ reqs[i].resp.status = status
  /\ JSONParse(reqs[i].resp.body) = [ok |-> TRUE, v |-> ErrorBody(message)]

\* The prompt of a parsed body is missing, not a string or blank.
BadPrompt(v) ==
  \/ v.t # "obj"
  \/ ~HasKey(v.m, <<"prompt">>)
  \/ Get(v, <<"prompt">>).t # "str"
  \/ Trim(Get(v, <<"prompt">>).s) = <<>>

\* C1: the handler validates credential, then body, then prompt, and stops
\* at the first failure: without a credential every request the handler has
\* taken up ends with the 500 configuration error whatever its body; with
\* one, a body that does not parse ends with the 400 of the invalid body and
\* a body that parses with a missing, non-string or blank prompt ends with
\* the 400 naming the prompt; the model is invoked in none of these cases.
C1_ValidationOrder ==
  \A i \in Slots :
    reqs[i].st \in {"awaiting", "done"} =>
      /\ ~apiKey => RejectedEarly(i, 500, MissingKeyMessage)
      /\ apiKey /\ ~JSONParse(reqs[i].body).ok =>
           RejectedEarly(i, 400, InvalidBodyMessage)
      /\ apiKey /\ JSONParse(reqs[i].body).ok
                /\ BadPrompt(JSONParse(reqs[i].body).v) =>
           RejectedEarly(i, 400, PromptRequiredMessage)

\* A malformed body met no credential and got the 500, not a 400.
C1_Witness ==
  \E i \in Slots :
    /\ Done(i)
    /\ ~apiKey
    /\ reqs[i].body = MalformedBody
    /\ reqs[i].resp.status = 500

\* C2: whenever the model answered with well-formed JSON, the response is a
\* 200 whose body is exactly the value of that JSON.
C2_PassThrough ==
  \A i \in Slots :
    Answered(i) /\ JSONParse(reqs[i].reply.text).ok =>
      /\ reqs[i].resp.status = 200
      /\ JSONParse(reqs[i].resp.body) = JSONParse(reqs[i].reply.text)

\* C4: a reply that is a JSON text inside a fenced block, with or without a
\* language tag, gets the same response as a reply that is the JSON text
\* alone.
C4_FenceTolerance ==
  \A i, j \in Slots :
    /\ Answered(i)
    /\ Answered(j)
    /\ JSONParse(reqs[j].reply.text).ok
    /\ \E tag \in FenceTags :
         reqs[i].reply.text = Fenced(tag, reqs[j].reply.text)
    => reqs[i].resp = reqs[j].resp

\* C5: whenever the model's text, trimmed and stripped of its fence, is not
\* valid JSON, the response is a 502 carrying an error message and, as raw,
\* the very text the parser was given.
C5_InvalidReply ==
  \A i \in Slots :
    Answered(i) /\ ~JSONParse(Cleaned(reqs[i].reply.text)).ok =>
      /\ reqs[i].resp.status = 502
      /\ JSONParse(reqs[i].resp.body).ok
      /\ Get(JSONParse(reqs[i].resp.body).v, <<"error">>).t = "str"
      /\ Get(JSONParse(reqs[i].resp.body).v, <<"raw">>)
           = JStr(Cleaned(reqs[i].reply.text))

\* A text with quotes and line breaks in it was not valid JSON and came back
\* in a 502.
C5_Witness ==
  \E i \in Slots :
    /\ Answered(i)
    /\ reqs[i].resp.status = 502
    /\ \E k \in DOMAIN Cleaned(reqs[i].reply.text) :
         Cleaned(reqs[i].reply.text)[k] = "\""
    /\ \E k \in DOMAIN Cleaned(reqs[i].reply.text) :
         Cleaned(reqs[i].reply.text)[k] = "\n"

(***************************************************************************)
(* Properties of the page                                                  *)
(***************************************************************************)
\* The page's requests that are in flight.
InFlight == {i \in Slots : reqs[i].src = "page"}

\* The body of the exchange of slot i carries a prompt that is a blank string.
BlankPromptSent(i) ==
  /\ JSONParse(reqs[i].body).ok
  /\ JSONParse(reqs[i].body).v.t = "obj"
  /\ Get(JSONParse(reqs[i].body).v, <<"prompt">>).t = "str"
  /\ Trim(Get(JSONParse(reqs[i].body).v, <<"prompt">>).s) = <<>>

\* handleAnalyze runs on a blank prompt.
AnalyzeBlank == Blank(prompt) /\ handleAnalyze

\* What a run of handleAnalyze on a blank prompt does, as the claim has it.
LocalRejection ==
  /\ reqs' = reqs
  /\ error' = JStr(WritePromptMessage)
  /\ ~isAnalyzing'
  /\ UNCHANGED <<analysis, prompt, copied>>

\* C3 as stated: the route answers every blank prompt with a 400, and
\* handleAnalyze on a blank prompt sends nothing, only sets the validation
\* error, leaving isAnalyzing false and analysis, prompt and copied as they
\* were.
C3_BlankPrompt ==
  /\ [](\A i \in Slots :
          Done(i) /\ BlankPromptSent(i) => reqs[i].resp.status = 400)
  /\ [][AnalyzeBlank => LocalRejection]_vars

\* C3 amended: with a credential configured the route answers every blank
\* prompt with a 400, the model not invoked (without one the answer is the
\* 500 of the missing credential); handleAnalyze on a blank prompt sends
\* nothing, only sets the validation error, leaving isAnalyzing false and
\* analysis, prompt and copied as they were.
C3_BlankPromptAmended ==
  /\ [](\A i \in Slots :
          Done(i) /\ BlankPromptSent(i) =>
            /\ reqs[i].calls = 0
            /\ reqs[i].resp.status = IF apiKey THEN 400 ELSE 500)
  /\ [][AnalyzeBlank => LocalRejection]_vars

\* The route has answered a blank prompt with a 400 and the page shows the
\* validation error of its own blank prompt, nothing in flight.
C3_Witness ==
  /\ \E i \in Slots :
       Done(i) /\ BlankPromptSent(i) /\ reqs[i].resp.status = 400
  /\ Blank(prompt)
  /\ error = JStr(WritePromptMessage)
  /\ InFlight = {}

\* The non-blank improved prompts the analysis holds.
HeldImproved ==
  IF analysis.t # "obj" THEN {}
  ELSE {analysis.m[k].v.s : k \in
          {k \in DOMAIN analysis.m :
             /\ analysis.m[k].k = <<"improvedPrompt">>
             /\ analysis.m[k].v.t = "str"
             /\ Trim(analysis.m[k].v.s) # <<>>}}

\* C6: handleUseImproved sets prompt to the improved prompt the analysis
\* holds when that is non-blank, and leaves prompt as it is when there is no
\* analysis or its improved prompt is absent, empty or blank; analysis,
\* error, isAnalyzing and copied are unchanged in every case.
C6_UseImproved ==
  [][handleUseImproved =>
       /\ IF HeldImproved = {} THEN prompt' = prompt
                               ELSE prompt' \in HeldImproved
       /\ UNCHANGED <<analysis, error, isAnalyzing, copied>>]_vars

\* The prompt is the improved prompt of the analysis on display.
C6_Witness ==
  /\ HeldImproved = {ImprovedText}
  /\ prompt = ImprovedText

\* C7: analysis is always the data of the last 2xx response the page read,
\* null before any: a fetch that failed, whether by its status, by a body
\* that cannot be read or by the network, leaves it as it was.
C7_FailedKeepsAnalysis == analysis = lastOk

\* An analysis on display has outlived a failed attempt.
C7_Witness ==
  /\ analysis # JNull
  /\ error # JNull
  /\ InFlight = {}

\* What the fetch of slot i may yield.
Outcomes(i) ==
  {Rejected} \cup {Responded(r) : r \in GatewayResponses \cup {reqs[i].resp}}

\* The attempt with this outcome failed.
Failed(o) ==
  \/ o.kind = "rejected"
  \/ ~ResponseOk(o.status)
  \/ ~JSONParse(o.body).ok

\* The error message the response of this outcome carries, if any.
ServerMessages(o) ==
  IF o.kind = "response" /\ JSONParse(o.body).ok
     /\ JSONParse(o.body).v.t = "obj"
     /\ Get(JSONParse(o.body).v, <<"error">>).t = "str"
  THEN {Get(JSONParse(o.body).v, <<"error">>)}
  ELSE {}

\* C8: every failed attempt sets error to the error message of the response
\* when it carries one and to a generic fallback otherwise, whatever the
\* status or body, and also when no body could be read.
C8_ErrorMessage ==
  [][\A i \in Slots : \A o \in Outcomes(i) :
       reqs[i].src = "page" /\ Settle(i, o) /\ Failed(o) =>
         IF ServerMessages(o) # {}
         THEN error' \in ServerMessages(o)
         ELSE error' \in {JStr(FailedToAnalyzeMessage),
                          JStr(UnknownErrorMessage)}]_vars

\* C9: when the fetch of a started handleAnalyze settles, by a 2xx, by an
\* error response or by a throw, isAnalyzing is false again; and where every
\* request resolves, isAnalyzing always becomes false again.
C9_BusyCleared ==
  /\ [][\A i \in Slots : FetchSettled(i) => ~isAnalyzing']_vars
  /\ (isAnalyzing ~> ~isAnalyzing)

\* An attempt has ended in a throw and the page is idle again.
C9_Witness ==
  /\ ~isAnalyzing
  /\ error \in {JStr(FetchFailedMessage), JStr(BodySyntaxMessage)}

\* C10: at most one request of the page is in flight; while one is, the
\* Analyze button is disabled; and a request in flight stays as it is until
\* its fetch settles and handleAnalyze resumes: nothing cancels it.
C10_OneInFlight ==
  /\ [](/\ Cardinality(InFlight) <= 1
        /\ InFlight # {} => isAnalyzing /\ AnalyzeDisabled)
  /\ [][\A i \in Slots :
          reqs[i].src = "page" =>
            \/ reqs'[i].src = "page" /\ reqs'[i].body = reqs[i].body
            \/ FetchSettled(i)]_vars

\* A request is in flight, its response ready, and the prompt alone would
\* not disable the Analyze button.
C10_Witness ==
  /\ \E i \in InFlight : Done(i)
  /\ ~Blank(prompt)

(***************************************************************************)
(* Properties of the route: invocations of the model                       *)
(***************************************************************************)
\* The request of slot i passes the three checks of the handler.
PassesValidation(i) ==
  /\ apiKey
  /\ JSONParse(reqs[i].body).ok
  /\ ~BadPrompt(JSONParse(reqs[i].body).v)

\* C11: the handler invokes the model at most once for a request, once when
\* the request passes validation and never otherwise; when that invocation
\* throws, the request is answered with the 500 of the failed call; and a
\* request that has its response, the 502 of an unparseable reply included,
\* is never taken up again.
C11_NoRetries ==
  /\ [](\A i \in Slots :
          /\ reqs[i].calls <= 1
          /\ reqs[i].st = "awaiting" => reqs[i].calls = 1
          /\ Done(i) => (reqs[i].calls = 1 <=> PassesValidation(i))
          /\ Done(i) /\ reqs[i].calls = 1 /\ reqs[i].reply.threw =>
               /\ reqs[i].resp.status = 500
               /\ JSONParse(reqs[i].resp.body)
                    = [ok |-> TRUE, v |-> ErrorBody(CallFailedMessage)])
  /\ [][\A i \in Slots :
          /\ reqs[i].st = "awaiting" =>
               reqs'[i] = reqs[i] \/ reqs'[i].st \in {"done", "free"}
          /\ Done(i) => reqs'[i] = reqs[i] \/ reqs'[i].st = "free"]_vars

\* One request has been answered with the 500 of a failed call and another
\* with the 502 of an unparseable reply, each after a single invocation.
C11_Witness ==
  \E i, j \in Slots :
    /\ Done(i) /\ reqs[i].calls = 1 /\ reqs[i].reply.threw
    /\ reqs[i].resp.status = 500
    /\ Done(j) /\ reqs[j].calls = 1 /\ reqs[j].resp.status = 502

(***************************************************************************)
(* Properties of the route: independence of the requests                   *)
(***************************************************************************)
\* The response the handler gives a request on the strength of the
\* credential, the request's body and the reply to its own invocation.
OwnResponse(i) ==
  IF Validate(apiKey, reqs[i].body).invoke
  THEN Conclude(reqs[i].reply)
  ELSE Validate(apiKey, reqs[i].body).resp

\* The handler runs for the request of slot i.
Handles(i) == POST_Begin(i) \/ POST_End(i, RouteReplies)

\* C12: however the requests interleave at the awaited call, the response
\* of each is the one its own body and the reply to its own invocation
\* yield under the credential, and what the model is given for it comes from
\* its own body; two requests with the same body and the same reply get the
\* same response; and a step of the handler for one request changes neither
\* the credential nor any other request.
C12_Independent ==
  /\ [](\A i \in Slots : Done(i) => reqs[i].resp = OwnResponse(i))
  /\ [](\A i, j \in Slots :
          /\ (/\ reqs[i].st \in {"awaiting", "done"}
              /\ reqs[j].st \in {"awaiting", "done"}
              /\ reqs[i].body = reqs[j].body)
             => reqs[i].contents = reqs[j].contents
          /\ (/\ Done(i)
              /\ Done(j)
              /\ reqs[i].body = reqs[j].body
              /\ reqs[i].reply = reqs[j].reply)
             => reqs[i].resp = reqs[j].resp)
  /\ [][/\ apiKey' = apiKey
        /\ \A i \in Slots :
             Handles(i) => \A j \in Slots \ {i} : reqs'[j] = reqs[j]]_vars

\* Two requests with the same body, handled at the same time, have been
\* answered differently, each by its own reply: a 200 and a 502.
C12_Witness ==
  \E i, j \in Slots :
    /\ Done(i) /\ Done(j)
    /\ reqs[i].body = reqs[j].body
    /\ reqs[i].resp.status = 200
    /\ reqs[j].resp.status = 502

(***************************************************************************)
(* Properties of the page: the copied indicator                            *)
(***************************************************************************)
\* The fetch of an attempt settles and the attempt succeeds: the try block
\* runs to its end and sets no error.
AnalyzeSucceeded == \E i \in Slots : FetchSettled(i) /\ error' = error

\* The timer of the latest copy fires.  The timers all run for the same
\* 1500 ms, so they fire in the order they were set and the latest is the
\* one that fires last.
LatestTimerFired == TimerFired /\ timers' = 0

\* handleCopyImproved returns at its first test, or its clipboard write
\* fails.
CopyNotDone ==
  \/ CopyDisabled /\ handleCopyImproved
  \/ WriteRejected

\* C13: a clipboard write that succeeds leaves copied true; copied then
\* stays true until the timer set by that same copy fires or an attempt
\* succeeds, so that the timer of an earlier copy does not end it, and it is
\* false once that timer has fired; handleCopyImproved without a usable
\* improved prompt, or with a failing clipboard write, changes nothing of
\* the page's state.
C13_CopyIndicator ==
  /\ [][WriteResolved => copied']_vars
  /\ [][copied /\ ~copied' => LatestTimerFired \/ AnalyzeSucceeded]_vars
  /\ [](copied => timers > 0)
  /\ [][CopyNotDone =>
          UNCHANGED <<prompt, analysis, isAnalyzing, error, copied>>]_vars

(***************************************************************************)
(* Properties of the page: the busy flag                                   *)
(***************************************************************************)
\* C14: whatever the user does and whenever responses and timers arrive,
\* isAnalyzing is true exactly while a request of the page is outstanding,
\* and error is null whenever isAnalyzing is true.
C14_BusyInvariant ==
  /\ isAnalyzing <=> InFlight # {}
  /\ isAnalyzing => error = JNull

\* A request is outstanding, the model not yet heard from, while an earlier
\* analysis is on display and the user has blanked the prompt: no error
\* shows.
C14_Witness ==
  /\ isAnalyzing
  /\ \E i \in InFlight : reqs[i].st = "awaiting"
  /\ analysis # JNull
  /\ error = JNull
  /\ prompt \in PromptEdits \ {DefaultPrompt}

====
